---- MODULE Spec2Model ----
(***************************************************************************)
(* A model of the core of TrancheReady: the risk scoring engine            *)
(* (src/lib/rules.js), the evidence token cache (src/lib/verify-store.js)  *)
(* and the evidence manifest builder (src/lib/manifest.js).                *)
(*                                                                         *)
(* Representation of the JavaScript values:                                *)
(*   - a calendar-date string "YYYY-MM-DD" is the tuple <<y, m, d>>; the   *)
(*     empty string is << >>; a string that is no date (for example        *)
(*     "2024-13-01") is a tuple that fails IsValidDate;                    *)
(*   - a Date is the record [valid, day]: an Invalid Date has valid=FALSE, *)
(*     a valid one carries the number of days since 1970-01-01;            *)
(*   - a free text (delivery_channel, services) is a tuple of words;       *)
(*   - amounts are whole dollars.                                          *)
(***************************************************************************)
EXTENDS Integers, Sequences, FiniteSets, TLC

VARIABLES clients, txs, lookback, pc, txByClient, results, out

\* The token cache: the Map of the Store, the clock Date.now() reads, and
\* what the last call of get returned.  putLog and expiredLog record the
\* calls made so far: the last put of each token, and the tokens a get has
\* found expired.
VARIABLES storeMap, now, got, putLog, expiredLog, response
VARIABLES cfg, namedFiles, upManifest, upZip, upPc, upToken, shown, verdict, uploads

scoreVars == <<clients, txs, lookback, pc, txByClient, results, out>>

storeVars == <<storeMap, now, got, putLog, expiredLog, response>>

upVars == <<cfg, namedFiles, upManifest, upZip, upPc, upToken, shown, verdict, uploads>>
vars == <<scoreVars, storeVars, upVars>>

(***************************************************************************)
(* Bounds of the model.                                                    *)
(***************************************************************************)
MaxClients == 2
MaxTx == 4
MaxTransfers == 3
MaxTicks == 3
MaxFiles == 2

(***************************************************************************)
(* Constants of the rule catalogue.                                        *)
(***************************************************************************)
HR_COUNTRIES == {"RU", "CN", "HK", "AE", "IN", "IR"}

\* A variant of toBand with no Medium band.
toBand_NoMedium(score) == IF score >= 30 THEN "High" ELSE "Low"

(***************************************************************************)
(* toBand, src/lib/rules.js:5-9.                                           *)
(***************************************************************************)
toBand(score) ==
  IF score >= 30 THEN "High"
  ELSE IF score >= 15 THEN "Medium"
  ELSE "Low"

(***************************************************************************)
(* Dates: date-fns parseISO, differenceInCalendarDays, isAfter.            *)
(***************************************************************************)
IsLeap(y) == (y % 4 = 0 /\ y % 100 # 0) \/ y % 400 = 0

DaysInMonth(y, m) ==
  IF m = 2 THEN (IF IsLeap(y) THEN 29 ELSE 28)
  ELSE IF m \in {4, 6, 9, 11} THEN 30
  ELSE 31

IsValidDate(s) ==
  /\ Len(s) = 3
  /\ s[2] \in 1..12
  /\ s[3] >= 1
  /\ s[3] <= DaysInMonth(s[1], s[2])

\* Days from 1970-01-01 to the first day of year y (y >= 1970): 365 a year
\* and one more for every leap year in 1970..y-1.
DaysBeforeYear(y) ==
  365 * (y - 1970) + ((y - 1969) \div 4) - ((y - 1901) \div 100) + ((y - 1601) \div 400)

RECURSIVE DaysBeforeMonth(_, _)
DaysBeforeMonth(y, m) ==
  IF m <= 1 THEN 0
  ELSE DaysBeforeMonth(y, m - 1) + DaysInMonth(y, m - 1)

DayNumber(s) == DaysBeforeYear(s[1]) + DaysBeforeMonth(s[1], s[2]) + (s[3] - 1)

InvalidDate == [valid |-> FALSE, day |-> 0]

parseISO(s) ==
  IF IsValidDate(s) THEN [valid |-> TRUE, day |-> DayNumber(s)] ELSE InvalidDate

isNaN(d) == ~d.valid

differenceInCalendarDays(a, b) == a.day - b.day

isAfter(a, b) == a.valid /\ b.valid /\ a.day > b.day

Abs(n) == IF n < 0 THEN -n ELSE n

\* src/lib/rules.js:11
daysBetween(a, b) == Abs(differenceInCalendarDays(parseISO(a), parseISO(b)))

\* String.prototype.localeCompare on two zero-padded date strings: the order
\* of the characters, which is the lexicographic order of <<y, m, d>>.
RECURSIVE localeCompareFrom(_, _, _)
localeCompareFrom(a, b, i) ==
  IF i > Len(a) /\ i > Len(b) THEN 0
  ELSE IF i > Len(a) THEN -1
  ELSE IF i > Len(b) THEN 1
  ELSE IF a[i] < b[i] THEN -1
  ELSE IF a[i] > b[i] THEN 1
  ELSE localeCompareFrom(a, b, i + 1)

localeCompare(a, b) == localeCompareFrom(a, b, 1)

(***************************************************************************)
(* Strings: toLowerCase, toUpperCase and includes on the words the model   *)
(* uses.                                                                   *)
(***************************************************************************)
toLowerCase(w) ==
  CASE w = "TRUE" -> "true"
    [] w = "True" -> "true"
    [] w = "Online" -> "online"
    [] w = "Remittance" -> "remittance"
    [] w = "Property" -> "property"
    [] OTHER -> w

toUpperCase(w) ==
  CASE w = "ru" -> "RU"
    [] w = "ir" -> "IR"
    [] w = "au" -> "AU"
    [] OTHER -> w

\* text.toLowerCase().includes(word), for a text given as its words
includes(text, word) == \E i \in 1..Len(text) : toLowerCase(text[i]) = word

(***************************************************************************)
(* reason(family, text, points), src/lib/rules.js:104, with the type tag   *)
(* added at src/lib/rules.js:92.                                           *)
(***************************************************************************)
reason(family, text, points) ==
  [type |-> "reason", family |-> family, text |-> text, points |-> points]

RECURSIVE SumPoints(_)
SumPoints(rs) == IF rs = << >> THEN 0 ELSE rs[1].points + SumPoints(Tail(rs))

Apply_Prepend(acc, cond, add, family, text, points) ==
  IF cond
  THEN [score |-> acc.score + add,
        reasons |-> <<reason(family, text, points)>> \o acc.reasons]
  ELSE acc

\* One rule of the catalogue: "if (cond) { score += add; reasons.push(reason(
\* family, text, points)); }" applied to the running score and reasons.
Apply(acc, cond, add, family, text, points) ==
  IF cond
  THEN [score |-> acc.score + add,
        reasons |-> Append(acc.reasons, reason(family, text, points))]
  ELSE acc

(***************************************************************************)
(* Indexing of the transactions by client within the lookback,             *)
(* src/lib/rules.js:15-23.  A Map is a function on the keys it holds.      *)
(***************************************************************************)
\* A variant of InLookback that leaves out the start date itself.
InLookback_Always(t, lb) == TRUE

InLookback_Exclusive(t, lb) == isAfter(parseISO(t.date), parseISO(lb.start))

InLookback(t, lb) ==
  isAfter(parseISO(t.date), parseISO(lb.start)) \/ t.date = lb.start

MapGet(map, key) == IF key \in DOMAIN map THEN map[key] ELSE << >>

MapPush_Shared(map, key, t) ==
  [k \in (DOMAIN map) \cup {key} |-> Append(MapGet(map, k), t)]

MapPush(map, key, t) ==
  [k \in (DOMAIN map) \cup {key} |-> IF k = key THEN Append(MapGet(map, key), t) ELSE map[k]]

EmptyMap == [k \in {} |-> << >>]

RECURSIVE IndexFrom(_, _, _, _)
IndexFrom(map, ts, lb, i) ==
  IF i > Len(ts) THEN map
  ELSE IndexFrom(IF InLookback(ts[i], lb) THEN MapPush(map, ts[i].client_id, ts[i]) ELSE map,
                 ts, lb, i + 1)

IndexTxs(ts, lb) == IndexFrom(EmptyMap, ts, lb, 1)

(***************************************************************************)
(* Array.prototype.sort((a,b) => a.date.localeCompare(b.date)): a stable   *)
(* sort, src/lib/rules.js:62.                                              *)
(***************************************************************************)
RECURSIVE InsertByDate(_, _)
InsertByDate(sorted, t) ==
  IF sorted = << >> THEN <<t>>
  ELSE IF localeCompare(sorted[Len(sorted)].date, t.date) <= 0 THEN Append(sorted, t)
  ELSE Append(InsertByDate(SubSeq(sorted, 1, Len(sorted) - 1), t), sorted[Len(sorted)])

RECURSIVE SortFrom(_, _, _)
SortFrom(sorted, list, i) ==
  IF i > Len(list) THEN sorted ELSE SortFrom(InsertByDate(sorted, list[i]), list, i + 1)

\* A variant of SortByDate that leaves the list in input order.
SortByDate_None(list) == list

SortByDate(list) == SortFrom(<< >>, list, 1)

(***************************************************************************)
(* The conditions of the rules, src/lib/rules.js:31-86.                    *)
(***************************************************************************)
\* A variant of pep that compares without lowering the case.
pep_CaseSensitive(c) == c.pep_flag = "true"

\* String(c.pep_flag || '').toLowerCase() === 'true'
pep(c) == toLowerCase(c.pep_flag) = "true"

sanc(c) == toLowerCase(c.sanctions_flag) = "true"

\* A variant of kycStale that counts a review exactly 365 days old as stale.
kycStale_AtLeast365(c, lb) ==
  /\ c.kyc_last_reviewed_at # << >>
  /\ LET kd == parseISO(c.kyc_last_reviewed_at)
     IN /\ ~isNaN(kd)
        /\ differenceInCalendarDays(parseISO(lb.end), kd) >= 365

\* src/lib/rules.js:37-46: an empty string is falsy, an unparsable one is ignored
kycStale(c, lb) ==
  /\ c.kyc_last_reviewed_at # << >>
  /\ LET kd == parseISO(c.kyc_last_reviewed_at)
     IN /\ ~isNaN(kd)
        /\ differenceInCalendarDays(parseISO(lb.end), kd) > 365

chanOnline(c) == includes(c.delivery_channel, "online")

svcRemittance(c) == includes(c.services, "remittance")

svcProperty(c) == includes(c.services, "property")

hrResidency(c) == toUpperCase(c.residency_country) \in HR_COUNTRIES

\* src/lib/rules.js:65
IsCashIn(t) ==
  /\ t.direction = "in"
  /\ t.method = "cash"
  /\ t.currency = "AUD"
  /\ t.amount >= 9600
  /\ t.amount <= 9999

cashIn(txlist) == SelectSeq(txlist, IsCashIn)

\* A variant of WinLength that counts the deposits less than 7 days away.
WinLength_Strict(list, i) ==
  1 + Cardinality({j \in (i + 1)..Len(list) : daysBetween(list[i].date, list[j].date) < 7})

\* src/lib/rules.js:66-73: win holds cashIn[i] and every later cashIn[j]
\* within 7 days of it
WinLength(list, i) ==
  1 + Cardinality({j \in (i + 1)..Len(list) : daysBetween(list[i].date, list[j].date) <= 7})

\* A variant of structured that is content with a window of 3.
structured_ThreeSuffice(list) == \E i \in 1..Len(list) : WinLength(list, i) >= 3

structured(list) == \E i \in 1..Len(list) : WinLength(list, i) >= 4

\* src/lib/rules.js:77
IsIntlHR(t) ==
  /\ t.direction = "out"
  /\ t.counterparty_country \in HR_COUNTRIES
  /\ t.currency = "AUD"

intlHR(txlist) == SelectSeq(txlist, IsIntlHR)

\* A variant of corridor that takes either condition alone.
corridor_Either(txlist) ==
  \/ Len(intlHR(txlist)) >= 2
  \/ \E i \in 1..Len(intlHR(txlist)) : intlHR(txlist)[i].amount >= 20000

corridor(txlist) ==
  /\ Len(intlHR(txlist)) >= 2
  /\ \E i \in 1..Len(intlHR(txlist)) : intlHR(txlist)[i].amount >= 20000

\* A variant of IsLargeAU that takes any counterparty country.
IsLargeAU_AnyCountry(t) == t.currency = "AUD" /\ t.amount >= 100000

\* src/lib/rules.js:83
IsLargeAU(t) ==
  /\ t.currency = "AUD"
  /\ t.amount >= 100000
  /\ (t.counterparty_country = "" \/ t.counterparty_country = "AU")

largeAU(txlist) == SelectSeq(txlist, IsLargeAU)

largeDomestic(txlist) == Len(largeAU(txlist)) >= 1

(***************************************************************************)
(* The rules in evaluation order, each with the points it adds to the      *)
(* score and the reason it pushes, src/lib/rules.js:33-86.                 *)
(***************************************************************************)
PepRule(acc, c) == Apply(acc, pep(c), 20, "profile", "PEP flag", 20)

\* A variant of SanctionsRule that adds 20 to the score for a reason of 25.
SanctionsRule_ScoreOff(acc, c) ==
  Apply(acc, sanc(c), 20, "profile", "Sanctions flag", 25)

SanctionsRule(acc, c) == Apply(acc, sanc(c), 25, "profile", "Sanctions flag", 25)

KycRule(acc, c, lb) ==
  Apply(acc, kycStale(c, lb), 5, "profile", "Stale KYC > 12 months", 5)

OnlineRule(acc, c) == Apply(acc, chanOnline(c), 3, "profile", "Online channel", 3)

RemittanceRule(acc, c) ==
  Apply(acc, svcRemittance(c), 6, "profile", "Remittance service", 6)

PropertyRule(acc, c) == Apply(acc, svcProperty(c), 4, "profile", "Property service", 4)

ResidencyRule(acc, c) ==
  Apply(acc, hrResidency(c), 8, "profile", "High-risk residency", 8)

StructuringRule(acc, txlist) ==
  Apply(acc, structured(cashIn(txlist)), 12, "behaviour",
        "Structuring pattern (>=4 cash deposits 9.6-9.999k in 7 days)", 12)

CorridorRule(acc, txlist) ==
  Apply(acc, corridor(txlist), 10, "behaviour",
        "High-risk corridor transfers (>=2; one >= 20k)", 10)

LargeRule(acc, txlist) ==
  Apply(acc, largeDomestic(txlist), 8, "behaviour", "Large domestic transfer >= 100k", 8)

\* One iteration of the loop over the clients, src/lib/rules.js:26-93; txlist
\* is the client's sorted list of transactions.
ScoreClient(c, txlist, lb) ==
  LET a0 == [score |-> 0, reasons |-> << >>]
      a1 == PepRule(a0, c)
      a2 == SanctionsRule(a1, c)
      a3 == KycRule(a2, c, lb)
      a4 == OnlineRule(a3, c)
      a5 == RemittanceRule(a4, c)
      a6 == PropertyRule(a5, c)
      a7 == ResidencyRule(a6, c)
      a8 == StructuringRule(a7, txlist)
      a9 == CorridorRule(a8, txlist)
      a10 == LargeRule(a9, txlist)
  IN [client_id |-> c.client_id,
      score |-> a10.score,
      band |-> toBand(a10.score),
      reasons |-> a10.reasons]

\* src/lib/rules.js:96-101
rulesMeta(lb) ==
  [ruleset_id |-> "dnfbp-2025.11",
   lookback |-> lb,
   corridors |-> <<"RU", "CN", "HK", "AE", "IN", "IR">>,
   banding |-> [High |-> ">=30", Medium |-> ">=15", Low |-> "<15"]]

\* The Map after the client's list was sorted in place (a list the Map does
\* not hold is a fresh empty array).
SortInPlace(map, key) ==
  IF key \in DOMAIN map THEN [map EXCEPT ![key] = SortByDate(map[key])] ELSE map

\* scoreAll as a function of its arguments: the scores it returns.
RECURSIVE ScoreFrom(_, _, _, _, _)
ScoreFrom(res, map, cs, lb, i) ==
  IF i > Len(cs) THEN res
  ELSE LET sorted == SortInPlace(map, cs[i].client_id)
       IN ScoreFrom(Append(res, ScoreClient(cs[i], MapGet(sorted, cs[i].client_id), lb)),
                    sorted, cs, lb, i + 1)

scoreAll(cs, ts, lb) == ScoreFrom(<< >>, IndexTxs(ts, lb), cs, lb, 1)

(***************************************************************************)
(* The inputs: client profiles, transactions and lookback windows.         *)
(***************************************************************************)
Client(id, pepv, sancv, kyc, chan, svc, res) ==
  [client_id |-> id, pep_flag |-> pepv, sanctions_flag |-> sancv,
   kyc_last_reviewed_at |-> kyc, delivery_channel |-> chan, services |-> svc,
   residency_country |-> res]

Tx(id, date, dir, method, cur, amount, cp) ==
  [client_id |-> id, date |-> date, direction |-> dir, method |-> method,
   currency |-> cur, amount |-> amount, counterparty_country |-> cp]

\* A client with no profile signal.
Plain(id) == Client(id, "", "", << >>, << >>, << >>, "")

LB == [start |-> <<2025, 1, 1>>, end |-> <<2025, 3, 1>>]

\* Review dates: absent, no date, 365, 366 and 28 days before LB.end, and
\* one day after it.
KycValues ==
  {<< >>, <<2024, 13, 1>>, <<2024, 3, 1>>, <<2024, 2, 29>>, <<2025, 2, 1>>, <<2025, 3, 2>>}

ProfileClients ==
  {Client("A", p, s, k, ch, sv, r) :
     p \in {"true", "TRUE", "false", ""},
     s \in {"true", "false", ""},
     k \in KycValues,
     ch \in {<< >>, <<"Online", "portal">>, <<"branch">>},
     sv \in {<< >>, <<"Remittance">>, <<"legal", "property">>, <<"remittance", "Property">>},
     r \in {"", "ir", "AU"}}

Deposit(id, date, amount) == Tx(id, date, "in", "cash", "AUD", amount, "")

\* Cash deposits 0, 4, 7 and 8 days after 28 January 2025, and deposits
\* that miss one condition of the structuring filter.
StructTxs ==
  {Deposit("A", <<2025, 1, 28>>, 9600),
   Deposit("A", <<2025, 2, 1>>, 9700),
   Deposit("A", <<2025, 2, 4>>, 9999),
   Deposit("A", <<2025, 2, 5>>, 9700),
   Deposit("A", <<2025, 2, 1>>, 9599),
   Deposit("A", <<2025, 2, 1>>, 10000),
   Deposit("B", <<2025, 2, 1>>, 9700),
   Tx("A", <<2025, 2, 1>>, "in", "card", "AUD", 9700, ""),
   Tx("A", <<2025, 2, 1>>, "out", "cash", "AUD", 9700, ""),
   Tx("A", <<2025, 2, 1>>, "in", "cash", "USD", 9700, "")}

Transfer(date, dir, cur, amount, cp) == Tx("A", date, dir, "wire", cur, amount, cp)

\* Transfers on the first day of the lookback, and some the day before it
\* and the day after its end.
TransferTxs ==
  {Transfer(<<2025, 1, 1>>, "out", "AUD", 20000, "RU"),
   Transfer(<<2025, 1, 1>>, "out", "AUD", 19999, "IR"),
   Transfer(<<2025, 1, 1>>, "in", "AUD", 20000, "RU"),
   Transfer(<<2025, 1, 1>>, "out", "USD", 20000, "RU"),
   Transfer(<<2025, 1, 1>>, "out", "AUD", 20000, "NZ"),
   Transfer(<<2025, 1, 1>>, "in", "AUD", 100000, ""),
   Transfer(<<2025, 1, 1>>, "out", "AUD", 100000, "AU"),
   Transfer(<<2025, 1, 1>>, "out", "AUD", 100000, "NZ"),
   Transfer(<<2025, 1, 1>>, "in", "AUD", 99999, "AU"),
   Transfer(<<2025, 1, 1>>, "in", "USD", 100000, ""),
   Transfer(<<2024, 12, 31>>, "out", "AUD", 20000, "RU"),
   Transfer(<<2024, 12, 31>>, "in", "AUD", 100000, ""),
   Transfer(<<2025, 3, 2>>, "out", "AUD", 19999, "IR"),
   Transfer(<<2025, 3, 2>>, "out", "AUD", 100000, "AU")}

MixClients ==
  {Plain("A"),
   Client("A", "true", "", << >>, << >>, << >>, ""),
   Client("B", "true", "true", <<2024, 2, 29>>, <<"Online">>, <<"Remittance", "Property">>, "ru"),
   Plain("B")}

MixTxSeqs ==
  {<< >>,
   <<Deposit("A", <<2025, 2, 1>>, 9700), Deposit("A", <<2025, 1, 28>>, 9600),
     Deposit("B", <<2025, 2, 1>>, 9700), Deposit("A", <<2025, 2, 1>>, 9700),
     Deposit("A", <<2025, 2, 5>>, 9700)>>,
   <<Deposit("A", <<2025, 2, 4>>, 9999), Deposit("A", <<2025, 2, 1>>, 9700),
     Deposit("A", <<2025, 1, 28>>, 9600), Deposit("A", <<2025, 2, 1>>, 9700)>>,
   <<Transfer(<<2025, 1, 1>>, "out", "AUD", 20000, "RU"),
     Tx("B", <<2025, 1, 1>>, "out", "wire", "AUD", 19999, "IR"),
     Tx("B", <<2025, 1, 1>>, "in", "wire", "AUD", 100000, ""),
     Tx("B", <<2025, 1, 1>>, "out", "wire", "AUD", 20000, "CN")>>}

SeqsUpTo(S, n) == UNION {[1..m -> S] : m \in 0..n}

(***************************************************************************)
(* The evidence token cache, src/lib/verify-store.js:3-17.                 *)
(*                                                                         *)
(* A JavaScript number is the record [nan, v]: NaN has nan = TRUE.  Times  *)
(* are milliseconds since the start of the process.  null is the empty     *)
(* tuple and a returned entry v the tuple <<v>>.                           *)
(***************************************************************************)
Num(v) == [nan |-> FALSE, v |-> v]

NaN == [nan |-> TRUE, v |-> 0]

NumAdd(a, b) == IF a.nan \/ b.nan THEN NaN ELSE Num(a.v + b.v)

NumMul(a, b) == IF a.nan \/ b.nan THEN NaN ELSE Num(a.v * b.v)

\* a > b, which is false when either side is NaN
NumGt(a, b) == ~a.nan /\ ~b.nan /\ a.v > b.v

\* src/lib/verify-store.js:6
Expiry(t, ttlMin) == NumAdd(Num(t), NumMul(NumMul(ttlMin, Num(60)), Num(1000)))

StorePut_Clobber(m, token, zipBuffer, manifest, ttlMin, t) ==
  [k \in (DOMAIN m) \cup {token} |->
     [zipBuffer |-> zipBuffer, manifest |-> manifest, exp |-> Expiry(t, ttlMin)]]

\* src/lib/verify-store.js:5-8: this.map.set(token, { zipBuffer, manifest, exp })
StorePut(m, token, zipBuffer, manifest, ttlMin, t) ==
  [k \in (DOMAIN m) \cup {token} |->
     IF k = token
     THEN [zipBuffer |-> zipBuffer, manifest |-> manifest, exp |-> Expiry(t, ttlMin)]
     ELSE m[k]]

MapDelete_All(m, token) == [k \in {} |-> m[token]]

MapDelete(m, token) == [k \in (DOMAIN m) \ {token} |-> m[k]]

IsExpired_AtBoundary(v, t) == ~v.exp.nan /\ t >= v.exp.v

\* src/lib/verify-store.js:12: the test that finds an entry expired
IsExpired(v, t) == NumGt(Num(t), v.exp)

StoreGet_ReadOnce(m, token, t) ==
  IF token \notin DOMAIN m THEN [value |-> << >>, map |-> m]
  ELSE IF IsExpired(m[token], t) THEN [value |-> << >>, map |-> MapDelete(m, token)]
  ELSE [value |-> <<m[token]>>, map |-> MapDelete(m, token)]

StoreGet_ServeStale(m, token, t) ==
  IF token \notin DOMAIN m THEN [value |-> << >>, map |-> m]
  ELSE IF IsExpired(m[token], t) THEN [value |-> <<m[token]>>, map |-> MapDelete(m, token)]
  ELSE [value |-> <<m[token]>>, map |-> m]

\* src/lib/verify-store.js:9-14: the value returned and the Map left behind
StoreGet(m, token, t) ==
  IF token \notin DOMAIN m THEN [value |-> << >>, map |-> m]
  ELSE IF IsExpired(m[token], t) THEN [value |-> << >>, map |-> MapDelete(m, token)]
  ELSE [value |-> <<m[token]>>, map |-> m]

\* Tokens, archives and manifests of the model of the cache.
Tokens == {"t1", "t2"}

Bundles == {1, 2}

ZipOf(k) == <<80, 75, k>>

ManifestOf(k) == [hash_algo |-> "SHA-256", ruleset_id |-> "dnfbp-2025.11", created_utc |-> k]

TtlValues == {Num(-1), Num(0), Num(1), NaN}

TickMs == 60 * 1000

\* got is the token and the return value of the get that has just returned;
\* it is NoGet once the clock has moved or the Map has been written since.
NoGet == [token |-> "", value |-> << >>]

\* response is the HTTP response of the route that has just answered: its
\* status, its text (the body of an error, else the kind of the page) and
\* what the page carries.  It is NoResponse when no route has just answered.
NoResponse == [status |-> 0, text |-> "", payload |-> << >>]

NotFound == [status |-> 404, text |-> "Link expired or not found.", payload |-> << >>]

\* The cache of a process that has served no request yet.
StoreIdle ==
  /\ storeMap = EmptyMap
  /\ now = 0
  /\ got = NoGet
  /\ putLog = EmptyMap
  /\ expiredLog = {}
  /\ response = NoResponse

\* verifyStore.put(token, zipBuffer, manifest, ttlMin)
Put ==
  \E token \in Tokens, k \in Bundles, ttlMin \in TtlValues :
    /\ storeMap' = StorePut(storeMap, token, ZipOf(k), ManifestOf(k), ttlMin, now)
    /\ putLog' = [t \in (DOMAIN putLog) \cup {token} |->
                    IF t = token
                    THEN [zipBuffer |-> ZipOf(k), manifest |-> ManifestOf(k),
                          ttlMin |-> ttlMin, at |-> now]
                    ELSE putLog[t]]
    /\ got' = NoGet
    /\ response' = NoResponse
    /\ UNCHANGED <<now, expiredLog>>
    /\ UNCHANGED scoreVars
    /\ UNCHANGED upVars

\* verifyStore.get(token)
Get ==
  \E token \in Tokens :
    LET r == StoreGet(storeMap, token, now)
    IN /\ storeMap' = r.map
       /\ got' = [token |-> token, value |-> r.value]
       /\ response' = NoResponse
       /\ expiredLog' = IF token \in DOMAIN storeMap /\ r.value = << >>
                        THEN expiredLog \cup {token} ELSE expiredLog
       /\ UNCHANGED <<now, putLog>>
       /\ UNCHANGED scoreVars
       /\ UNCHANGED upVars

\* Time passes.
Tick ==
  /\ now < MaxTicks * TickMs
  /\ now' = now + TickMs
  /\ got' = NoGet
  /\ response' = NoResponse
  /\ UNCHANGED <<storeMap, putLog, expiredLog>>
  /\ UNCHANGED scoreVars
  /\ UNCHANGED upVars

VerifyPage(entry) ==
  [status |-> 200, text |-> "verify", payload |-> <<entry.manifest, cfg.SIGN_PUBLIC_KEY>>]

DownloadPage(entry) ==
  [status |-> 200, text |-> "application/zip", payload |-> <<entry.zipBuffer>>]

\* const entry = verifyStore.get(req.params.token) of a route, and the
\* response the route sends
RouteGet(token, route) ==
  LET r == StoreGet(storeMap, token, now)
  IN /\ storeMap' = r.map
     /\ got' = [token |-> token, value |-> r.value]
     /\ expiredLog' = IF token \in DOMAIN storeMap /\ r.value = << >>
                      THEN expiredLog \cup {token} ELSE expiredLog
     /\ response' = IF r.value = << >> THEN NotFound
                    ELSE IF route = "verify" THEN VerifyPage(r.value[1])
                    ELSE DownloadPage(r.value[1])
     /\ UNCHANGED <<now, putLog>>
     /\ UNCHANGED scoreVars
     /\ UNCHANGED upVars

\* GET /verify/:token, src/unnamed/part_005:225-229
VerifyRoute == \E token \in Tokens : RouteGet(token, "verify")

\* GET /download/:token, src/unnamed/part_005:230-236
DownloadRoute == \E token \in Tokens : RouteGet(token, "download")

TokensActive_Unexpired(m) == Cardinality({t \in DOMAIN m : ~IsExpired(m[t], now)})

\* tokens_active: verifyStore.map?.size || 0
TokensActive(m) == Cardinality(DOMAIN m)

\* GET /api/status, src/unnamed/part_005:106-116
StatusRoute ==
  /\ response' = [status |-> 200, text |-> "status", payload |-> <<TokensActive(storeMap)>>]
  /\ got' = NoGet
  /\ UNCHANGED <<storeMap, now, putLog, expiredLog>>
  /\ UNCHANGED scoreVars
  /\ UNCHANGED upVars

(***************************************************************************)
(* The evidence manifest, src/lib/manifest.js:5-41.                        *)
(*                                                                         *)
(* namedFiles is the object passed to buildManifest, as the sequence of    *)
(* its properties [name, buf] in the order they were inserted; a Buffer is *)
(* the tuple of its bytes.  A SHA-256 digest is the tagged tuple           *)
(* <<"sha256", bytes>>: two digests are equal exactly when the bytes are,  *)
(* which assumes SHA-256 has no collision on the inputs considered.  An    *)
(* Ed25519 signature is the record [signer, msg] of the key pair that      *)
(* signed and the message signed, the ideal behaviour of the scheme.       *)
(***************************************************************************)

\* Property names that are array indices, with their numeric value.
ArrayIndex == ("1" :> 1) @@ ("2" :> 2)

IsArrayIndex(name) == name \in DOMAIN ArrayIndex

RECURSIVE AscendingIndexEntries(_, _)
AscendingIndexEntries(nf, S) ==
  IF S = {} THEN << >>
  ELSE LET i == CHOOSE x \in S : \A y \in S : ArrayIndex[nf[x].name] <= ArrayIndex[nf[y].name]
       IN  <<nf[i]>> \o AscendingIndexEntries(nf, S \ {i})

IsStringKey(e) == ~IsArrayIndex(e.name)

\* Object.entries(namedFiles): array-index names first, in ascending numeric
\* order, then the other names in the order they were inserted
ObjectEntries(nf) ==
  AscendingIndexEntries(nf, {i \in 1..Len(nf) : IsArrayIndex(nf[i].name)})
    \o SelectSeq(nf, IsStringKey)

\* src/lib/manifest.js:39-41
sha256Hex(buf) == <<"sha256", buf>>

\* src/lib/manifest.js:6-10
FileDigests(nf) ==
  LET es == ObjectEntries(nf)
  IN  [i \in 1..Len(es) |->
         [name |-> es[i].name, bytes |-> Len(es[i].buf), sha256 |-> sha256Hex(es[i].buf)]]

\* new Date().toISOString() at time t
toISOString(t) == <<"iso", t>>

\* The key material an environment value decodes to (Buffer.from(s, 'base64')
\* never throws): its length in bytes and the key pair it belongs to.
KeyMaterial ==
  [skA |-> [len |-> 64, pair |-> "A"],
   skB |-> [len |-> 64, pair |-> "B"],
   seedA |-> [len |-> 32, pair |-> "A"],
   pkA |-> [len |-> 32, pair |-> "A"],
   pkB |-> [len |-> 32, pair |-> "B"]]

PrivateKeys == {"", "skA", "skB", "seedA"}

PublicKeys == {"", "pkA", "pkB"}

SignedMessage_NoTimestamp(files, created_utc, ruleset_id) ==
  [files |-> files, ruleset_id |-> ruleset_id]

\* src/lib/manifest.js:20-24
SignedMessage(files, created_utc, ruleset_id) ==
  [files |-> files, created_utc |-> created_utc, ruleset_id |-> ruleset_id]

SignThrows_Never(secret) == FALSE

\* nacl.sign.detached throws unless the secret key has 64 bytes
SignThrows(secret) == secret.len # 64

SignDetached(msg, secret) == [signer |-> secret.pair, msg |-> msg]

Base64(x) == <<"base64", x>>

Unsigned(files, rm, t) ==
  [created_utc |-> toISOString(t), hash_algo |-> "SHA-256",
   ruleset_id |-> rm.ruleset_id, files |-> files]

Signed(m, secret) ==
  [created_utc |-> m.created_utc, hash_algo |-> m.hash_algo,
   ruleset_id |-> m.ruleset_id, files |-> m.files,
   signing |-> [key_id |-> "ed25519:app",
                signature |-> Base64(SignDetached(
                  SignedMessage(m.files, m.created_utc, m.ruleset_id), secret))]]

SigningConfigured_PrivateOnly(c) == c.SIGN_PRIVATE_KEY # ""

\* src/lib/manifest.js:18
SigningConfigured(c) == c.SIGN_PRIVATE_KEY # "" /\ c.SIGN_PUBLIC_KEY # ""

\* src/lib/manifest.js:5-37, with the configuration c and the clock at t
buildManifest(nf, rm, c, t) ==
  LET m == Unsigned(FileDigests(nf), rm, t)
  IN  IF SigningConfigured(c)
      THEN IF SignThrows(KeyMaterial[c.SIGN_PRIVATE_KEY]) THEN m
           ELSE Signed(m, KeyMaterial[c.SIGN_PRIVATE_KEY])
      ELSE m

\* The configuration read from the environment, src/unnamed/part_002:10-15
Config(priv, pub) ==
  [APP_ORIGIN |-> "http://localhost:10000", VERIFY_TTL_MIN |-> Num(60),
   SIGN_PRIVATE_KEY |-> priv, SIGN_PUBLIC_KEY |-> pub]

\* The POST /upload requests of the model, and the state of a request that
\* has not arrived: pc is the point the handler has reached, input the files
\* it was sent, and files, manifest, zipBuffer, token its local constants of
\* the same names (<< >> while unassigned), res the response it has sent.
Requests == {1, 2}

NotArrived ==
  [pc |-> "idle", input |-> 0, files |-> << >>, manifest |-> << >>,
   zipBuffer |-> << >>, token |-> "", res |-> [status |-> 0]]

NoUploads == [r \in Requests |-> NotArrived]

\* No upload is in progress.
UpIdle ==
  /\ cfg = Config("", "")
  /\ namedFiles = << >>
  /\ upManifest = << >>
  /\ upZip = << >>
  /\ upPc = "idle"
  /\ upToken = ""
  /\ shown = << >>
  /\ verdict = ""
  /\ uploads = NoUploads

\* Names and contents of the evidence files of the model.
FileNames == {"clients.json", "cases.json", "1", "2"}

Blobs == {<<1>>, <<2>>, <<1, 2>>}

NamedBlob(name, buf) == [name |-> name, buf |-> buf]

\* The objects with at most n properties, in every insertion order.
NamedFileMaps(n) ==
  {nf \in SeqsUpTo({NamedBlob(name, buf) : name \in FileNames, buf \in Blobs}, n) :
     \A i, j \in 1..Len(nf) : i # j => nf[i].name # nf[j].name}

\* The archive of the files and of manifest.json
zipNamedBuffers(nf, m) == nf \o <<NamedBlob("manifest.json", m)>>

\* POST /upload, src/unnamed/part_005:190
BuildManifest ==
  /\ upPc = "files"
  /\ upManifest' = <<buildManifest(namedFiles, rulesMeta(lookback), cfg, now)>>
  /\ upPc' = "built"
  /\ UNCHANGED <<cfg, namedFiles, upZip, upToken, shown, verdict>>
  /\ UNCHANGED uploads
  /\ UNCHANGED <<scoreVars, storeVars>>

\* POST /upload, src/unnamed/part_005:191
Zip ==
  /\ upPc = "built"
  /\ upZip' = <<zipNamedBuffers(namedFiles, upManifest[1])>>
  /\ upPc' = "zipped"
  /\ UNCHANGED <<cfg, namedFiles, upManifest, upToken, shown, verdict>>
  /\ UNCHANGED uploads
  /\ UNCHANGED <<scoreVars, storeVars>>

\* POST /upload, src/unnamed/part_005:193-194
Register ==
  /\ upPc = "zipped"
  /\ \E token \in Tokens :
       /\ upToken' = token
       /\ storeMap' = StorePut(storeMap, token, upZip[1], upManifest[1],
                               cfg.VERIFY_TTL_MIN, now)
       /\ putLog' = [t \in (DOMAIN putLog) \cup {token} |->
                       IF t = token
                       THEN [zipBuffer |-> upZip[1], manifest |-> upManifest[1],
                             ttlMin |-> cfg.VERIFY_TTL_MIN, at |-> now]
                       ELSE putLog[t]]
  /\ upPc' = "registered"
  /\ got' = NoGet
  /\ response' = NoResponse
  /\ UNCHANGED <<now, expiredLog>>
  /\ UNCHANGED <<cfg, namedFiles, upManifest, upZip, shown, verdict>>
  /\ UNCHANGED uploads
  /\ UNCHANGED scoreVars

\* GET /verify/:token, src/unnamed/part_005:225-229
GetVerify ==
  /\ upPc = "registered"
  /\ LET r == StoreGet(storeMap, upToken, now)
     IN  /\ storeMap' = r.map
         /\ got' = [token |-> upToken, value |-> r.value]
         /\ expiredLog' = IF r.value = << >> THEN expiredLog \cup {upToken} ELSE expiredLog
         /\ IF r.value = << >>
            THEN upPc' = "notfound" /\ shown' = << >> /\ response' = NotFound
            ELSE /\ upPc' = "shown"
                 /\ shown' = <<r.value[1].manifest>>
                 /\ response' = [status |-> 200, text |-> "verify",
                                 payload |-> <<r.value[1].manifest, cfg.SIGN_PUBLIC_KEY>>]
  /\ UNCHANGED <<now, putLog>>
  /\ UNCHANGED <<cfg, namedFiles, upManifest, upZip, upToken, verdict>>
  /\ UNCHANGED uploads
  /\ UNCHANGED scoreVars

\* The checks of a reader of the manifest: "unsigned" without a signing
\* block, else the Ed25519 verification of the recorded signature over the
\* re-serialized {files, created_utc, ruleset_id} under the public key.
VerifyManifest(m, publicKey) ==
  IF "signing" \notin DOMAIN m THEN "unsigned"
  ELSE IF /\ publicKey \in {"pkA", "pkB"}
          /\ m.signing.signature =
               Base64([signer |-> KeyMaterial[publicKey].pair,
                       msg |-> SignedMessage(m.files, m.created_utc, m.ruleset_id)])
       THEN "valid"
       ELSE "invalid"

\* The ways a manifest is altered after it was created.
TamperKinds == {"files", "created_utc", "ruleset_id", "hash_algo", "signature"}

Tampered(m, kind) ==
  CASE kind = "files" ->
         IF m.files = << >>
         THEN [m EXCEPT !.files = <<[name |-> "extra", bytes |-> 0, sha256 |-> <<"sha256", << >>>>]>>]
         ELSE [m EXCEPT !.files[1].sha256 = <<"sha256", <<9>>>>]
    [] kind = "created_utc" -> [m EXCEPT !.created_utc = <<"iso", 1>>]
    [] kind = "ruleset_id" -> [m EXCEPT !.ruleset_id = "other"]
    [] kind = "hash_algo" -> [m EXCEPT !.hash_algo = "MD5"]
    [] kind = "signature" ->
         IF "signing" \in DOMAIN m
         THEN [m EXCEPT !.signing.signature = Base64([signer |-> "A", msg |-> SignedMessage(<< >>, <<"iso", 1>>, "forged")])]
         ELSE m

\* Somebody alters the manifest the verify page handed out.
Tamper ==
  /\ upPc = "shown"
  /\ shown = upManifest
  /\ \E kind \in TamperKinds :
       /\ Tampered(shown[1], kind) # shown[1]
       /\ shown' = <<Tampered(shown[1], kind)>>
  /\ UNCHANGED <<cfg, namedFiles, upManifest, upZip, upPc, upToken, verdict>>
  /\ UNCHANGED uploads
  /\ UNCHANGED <<scoreVars, storeVars>>

\* The reader verifies the manifest against the public key of the page.
Verify ==
  /\ upPc = "shown"
  /\ verdict' = VerifyManifest(shown[1], cfg.SIGN_PUBLIC_KEY)
  /\ upPc' = "verified"
  /\ UNCHANGED <<cfg, namedFiles, upManifest, upZip, upToken, shown>>
  /\ UNCHANGED uploads
  /\ UNCHANGED <<scoreVars, storeVars>>

(***************************************************************************)
(* POST /upload, src/unnamed/part_005:168-206.  The handler runs in three  *)
(* uninterrupted stretches, separated by its two awaits (scoreAll and      *)
(* zipNamedBuffers); the stretches of different requests interleave.       *)
(***************************************************************************)

\* The pairs of CSV files a request may carry, and what normalization makes
\* of them.
Inputs == {1, 2}

InputClients(k) ==
  IF k = 1 THEN <<Plain("A")>>
  ELSE <<Client("B", "true", "", << >>, << >>, << >>, "")>>

EvidenceFiles_NoProgram(k) ==
  <<NamedBlob("clients.json", <<k>>),
    NamedBlob("transactions.json", <<k, k>>),
    NamedBlob("cases.json", <<k, 0>>)>>

\* src/unnamed/part_005:183-188: the four blobs, as bytes standing for the
\* JSON and HTML made from the request's own records
EvidenceFiles(k) ==
  <<NamedBlob("clients.json", <<k>>),
    NamedBlob("transactions.json", <<k, k>>),
    NamedBlob("cases.json", <<k, 0>>),
    NamedBlob("program.html", <<60, k>>)>>

MissingFile ==
  [status |-> 400, error |-> "Both Clients.csv and Transactions.csv are required."]

ProcessingFailed_Ok == [status |-> 200, error |-> "Processing failed."]

ProcessingFailed == [status |-> 500, error |-> "Processing failed."]

\* new URL(path, base) throws unless base parses as an absolute URL
IsUrl(origin) == origin = "http://localhost:10000"

Ended(u, res) == [u EXCEPT !.pc = "done", !.res = res]

upOneVars == <<cfg, namedFiles, upManifest, upZip, upPc, upToken, shown, verdict>>

\* Lines 170-180: the files are checked, parsed and normalized, and scoreAll
\* is called; csvParse or a normalizer may throw.
UploadStart(r) ==
  /\ uploads[r].pc = "idle"
  /\ \/ uploads' = [uploads EXCEPT ![r] = Ended(@, MissingFile)]
     \/ uploads' = [uploads EXCEPT ![r] = Ended(@, ProcessingFailed)]
     \/ \E k \in Inputs : uploads' = [uploads EXCEPT ![r].pc = "scoring", ![r].input = k]
  /\ UNCHANGED <<scoreVars, storeVars, upOneVars>>

\* Lines 180-191: scoreAll has settled; the cases and the four blobs are
\* built, then the manifest, and zipNamedBuffers is called.  Any of them may
\* throw.
UploadAssemble(r) ==
  /\ uploads[r].pc = "scoring"
  /\ \/ uploads' = [uploads EXCEPT ![r] = Ended(@, ProcessingFailed)]
     \/ LET files == EvidenceFiles(uploads[r].input)
        IN  uploads' = [uploads EXCEPT
                          ![r].pc = "zipping",
                          ![r].files = files,
                          ![r].manifest = <<buildManifest(files, rulesMeta(LB), cfg, now)>>]
  /\ UNCHANGED <<scoreVars, storeVars, upOneVars>>

\* Lines 191-201: the archive has settled (or zipNamedBuffers has failed); a
\* token is drawn, archive and manifest are put under it, and the response
\* with the two URLs of that token is sent; building the URLs throws when
\* APP_ORIGIN is not a URL, and the catch answers 500.
UploadFinish(r) ==
  /\ uploads[r].pc = "zipping"
  /\ \/ /\ uploads' = [uploads EXCEPT ![r] = Ended(@, ProcessingFailed)]
        /\ UNCHANGED storeVars
     \/ \E token \in Tokens :
          LET u == uploads[r]
              zip == zipNamedBuffers(u.files, u.manifest[1])
          IN  /\ storeMap' = StorePut(storeMap, token, zip, u.manifest[1],
                                      cfg.VERIFY_TTL_MIN, now)
              /\ putLog' = [t \in (DOMAIN putLog) \cup {token} |->
                              IF t = token
                              THEN [zipBuffer |-> zip, manifest |-> u.manifest[1],
                                    ttlMin |-> cfg.VERIFY_TTL_MIN, at |-> now]
                              ELSE putLog[t]]
              /\ uploads' = [uploads EXCEPT
                               ![r].pc = "done",
                               ![r].zipBuffer = <<zip>>,
                               ![r].token = token,
                               ![r].res =
                                 IF IsUrl(cfg.APP_ORIGIN)
                                 THEN [status |-> 200, ok |-> TRUE,
                                       risk |-> scoreAll(InputClients(u.input), << >>, LB),
                                       verify_url |-> <<cfg.APP_ORIGIN, "/verify/", token>>,
                                       download_url |-> <<cfg.APP_ORIGIN, "/download/", token>>]
                                 ELSE ProcessingFailed]
              /\ got' = NoGet
              /\ response' = NoResponse
              /\ UNCHANGED <<now, expiredLog>>
  /\ UNCHANGED <<scoreVars, upOneVars>>

(***************************************************************************)
(* The state machine: a call of scoreAll.                                  *)
(***************************************************************************)
Start(cs, ts, lb) ==
  /\ clients = cs
  /\ txs = ts
  /\ lookback = lb
  /\ pc = "index"
  /\ txByClient = EmptyMap
  /\ results = << >>
  /\ out = << >>
  /\ StoreIdle
  /\ UpIdle

InitProfile ==
  \E c \in ProfileClients, ts \in {<< >>, <<Transfer(<<2025, 1, 1>>, "in", "AUD", 100000, "")>>} :
    Start(<<c>>, ts, LB)

\* Lists of deposits with at most one transaction that the structuring
\* filter rejects.
IsQualifying(t) ==
  /\ t.client_id = "A" /\ t.direction = "in" /\ t.method = "cash"
  /\ t.currency = "AUD" /\ t.amount \in 9600..9999

InitStruct ==
  \E ts \in SeqsUpTo(StructTxs, MaxTx) :
    /\ Cardinality({j \in 1..Len(ts) : ~IsQualifying(ts[j])}) <= 1
    /\ Start(<<Plain("A")>>, ts, LB)

InitTransfers ==
  \E ts \in SeqsUpTo(TransferTxs, MaxTransfers) : Start(<<Plain("A")>>, ts, LB)

InitMixed ==
  \E cs \in SeqsUpTo(MixClients, MaxClients), ts \in MixTxSeqs : Start(cs, ts, LB)

Init == InitProfile \/ InitStruct \/ InitTransfers \/ InitMixed

\* src/lib/rules.js:15-23
Index ==
  /\ pc = "index"
  /\ txByClient' = IndexTxs(txs, lookback)
  /\ pc' = "score"
  /\ UNCHANGED <<clients, txs, lookback, results, out>>
  /\ UNCHANGED storeVars
  /\ UNCHANGED upVars

\* src/lib/rules.js:26-94, one iteration
ScoreOne ==
  /\ pc = "score"
  /\ Len(results) < Len(clients)
  /\ LET c == clients[Len(results) + 1]
         sorted == SortInPlace(txByClient, c.client_id)
     IN /\ txByClient' = sorted
        /\ results' = Append(results, ScoreClient(c, MapGet(sorted, c.client_id), lookback))
  /\ UNCHANGED <<clients, txs, lookback, pc, out>>
  /\ UNCHANGED storeVars
  /\ UNCHANGED upVars

RECURSIVE DedupFrom(_, _)
DedupFrom(rs, i) ==
  IF i > Len(rs) THEN << >>
  ELSE IF \E j \in 1..(i - 1) : rs[j].client_id = rs[i].client_id
       THEN DedupFrom(rs, i + 1)
       ELSE <<rs[i]>> \o DedupFrom(rs, i + 1)

Return_Dedup ==
  /\ pc = "score"
  /\ Len(results) = Len(clients)
  /\ out' = <<[scores |-> DedupFrom(results, 1), rulesMeta |-> rulesMeta(lookback)]>>
  /\ pc' = "done"
  /\ UNCHANGED <<clients, txs, lookback, txByClient, results>>
  /\ UNCHANGED storeVars
  /\ UNCHANGED upVars

\* src/lib/rules.js:96-101
Return ==
  /\ pc = "score"
  /\ Len(results) = Len(clients)
  /\ out' = <<[scores |-> results, rulesMeta |-> rulesMeta(lookback)]>>
  /\ pc' = "done"
  /\ UNCHANGED <<clients, txs, lookback, txByClient, results>>
  /\ UNCHANGED storeVars
  /\ UNCHANGED upVars

Next == Index \/ ScoreOne \/ Return

Spec == Init /\ [][Next]_vars

SpecProfile == InitProfile /\ [][Next]_vars

SpecStruct == InitStruct /\ [][Next]_vars

SpecTransfers == InitTransfers /\ [][Next]_vars

SpecMixed == InitMixed /\ [][Next]_vars

\* The cache alone: no call of scoreAll is in progress.
ScoreIdle ==
  /\ clients = << >>
  /\ txs = << >>
  /\ lookback = LB
  /\ pc = "done"
  /\ txByClient = EmptyMap
  /\ results = << >>
  /\ out = << >>

InitStore == ScoreIdle /\ StoreIdle /\ UpIdle

NextStore == Put \/ Get \/ Tick \/ VerifyRoute \/ DownloadRoute \/ StatusRoute

SpecStore == InitStore /\ [][NextStore]_vars

\* One upload from the point its evidence files are assembled, and the
\* reading of its verify page.
InitManifest ==
  /\ ScoreIdle
  /\ StoreIdle
  /\ \E priv \in PrivateKeys, pub \in PublicKeys : cfg = Config(priv, pub)
  /\ namedFiles \in NamedFileMaps(MaxFiles)
  /\ upManifest = << >>
  /\ upZip = << >>
  /\ upPc = "files"
  /\ upToken = ""
  /\ shown = << >>
  /\ verdict = ""
  /\ uploads = NoUploads

NextManifest == BuildManifest \/ Zip \/ Register \/ GetVerify \/ Tamper \/ Verify

SpecManifest == InitManifest /\ [][NextManifest]_vars

\* Requests arriving at a server configured without keys, with a key pair,
\* with a private key the signing call rejects, or with an APP_ORIGIN that is
\* not a URL.
InitUpload ==
  /\ ScoreIdle
  /\ StoreIdle
  /\ cfg \in {Config("", ""), Config("skA", "pkA"), Config("seedA", "pkA"),
              [Config("", "") EXCEPT !.APP_ORIGIN = "localhost"]}
  /\ namedFiles = << >>
  /\ upManifest = << >>
  /\ upZip = << >>
  /\ upPc = "idle"
  /\ upToken = ""
  /\ shown = << >>
  /\ verdict = ""
  /\ uploads = NoUploads

NextUpload ==
  \/ \E r \in Requests : UploadStart(r)
  \/ \E r \in Requests : UploadAssemble(r)
  \/ \E r \in Requests : UploadFinish(r)
  \/ VerifyRoute
  \/ DownloadRoute
  \/ Tick

SpecUpload == InitUpload /\ [][NextUpload]_vars

(***************************************************************************)
(* Vocabulary of the properties, stated on the inputs and the results and  *)
(* not through the operators of the scoring code.                          *)
(***************************************************************************)
Day(date) == DayNumber(date)

HasReason(r, text) == \E k \in 1..Len(r.reasons) : r.reasons[k].text = text

CountReason(r, text) == Cardinality({k \in 1..Len(r.reasons) : r.reasons[k].text = text})

StructuringText == "Structuring pattern (>=4 cash deposits 9.6-9.999k in 7 days)"
CorridorText == "High-risk corridor transfers (>=2; one >= 20k)"
LargeText == "Large domestic transfer >= 100k"
KycText == "Stale KYC > 12 months"

FlagTrue(v) == v \in {"true", "TRUE", "True"}

\* The positions in ts of the transactions of client id dated on or after
\* the start of the lookback.
InWindowOf(ts, id, lb) ==
  {j \in 1..Len(ts) : ts[j].client_id = id /\ Day(ts[j].date) >= Day(lb.start)}

InWindow(id) == InWindowOf(txs, id, lookback)

Deposits(id) ==
  {j \in InWindow(id) :
     /\ txs[j].direction = "in" /\ txs[j].method = "cash" /\ txs[j].currency = "AUD"
     /\ txs[j].amount \in 9600..9999}

\* At least 4 deposits with latest date minus earliest date at most 7 days.
FourWithinSevenDays(id) ==
  \E S \in SUBSET Deposits(id) :
    /\ Cardinality(S) >= 4
    /\ \A a, b \in S : Day(txs[a].date) - Day(txs[b].date) <= 7

\* Some deposit with at least 3 others at most 7 days before or after it.
ThreeOthersAround(id) ==
  \E a \in Deposits(id) :
    Cardinality({b \in Deposits(id) \ {a} :
                   Abs(Day(txs[b].date) - Day(txs[a].date)) <= 7}) >= 3

\* Some deposit with at least 3 others on its date or at most 7 days after.
ThreeOthersAfter(id) ==
  \E a \in Deposits(id) :
    Cardinality({b \in Deposits(id) \ {a} :
                   Day(txs[b].date) - Day(txs[a].date) \in 0..7}) >= 3

HighRiskOut(id) ==
  {j \in InWindow(id) :
     /\ txs[j].direction = "out" /\ txs[j].currency = "AUD"
     /\ txs[j].counterparty_country \in {"RU", "CN", "HK", "AE", "IN", "IR"}}

LargeDomestic(id) ==
  {j \in InWindow(id) :
     /\ txs[j].currency = "AUD" /\ txs[j].amount >= 100000
     /\ txs[j].counterparty_country \in {"", "AU"}}

NoBehaviourSignal(id) ==
  /\ ~FourWithinSevenDays(id)
  /\ ~(Cardinality(HighRiskOut(id)) >= 2 /\ \E j \in HighRiskOut(id) : txs[j].amount >= 20000)
  /\ LargeDomestic(id) = {}

KycOlderThan365(c) ==
  /\ c.kyc_last_reviewed_at # << >>
  /\ IsValidDate(c.kyc_last_reviewed_at)
  /\ Day(lookback.end) - Day(c.kyc_last_reviewed_at) > 365

Words(text) == {text[k] : k \in 1..Len(text)}

\* No signal besides the PEP and sanctions flags.
NoOtherSignal(c) ==
  /\ ~KycOlderThan365(c)
  /\ Words(c.delivery_channel) \cap {"online", "Online"} = {}
  /\ Words(c.services) \cap {"remittance", "Remittance", "property", "Property"} = {}
  /\ c.residency_country \notin {"RU", "CN", "HK", "AE", "IN", "IR", "ru", "ir"}
  /\ NoBehaviourSignal(c.client_id)

Scored == 1..Len(results)

PepReason == reason("profile", "PEP flag", 20)
SanctionsReason == reason("profile", "Sanctions flag", 25)

(***************************************************************************)
(* C1: every result of scoreAll has score equal to the sum of the points   *)
(* of its reasons, and band High iff score >= 30, Medium iff 15 <= score   *)
(* < 30, Low otherwise.                                                    *)
(***************************************************************************)
C1_ScoreIsSumAndBand ==
  /\ \A i \in Scored :
       LET r == results[i]
       IN /\ r.score = SumPoints(r.reasons)
          /\ r.band \in {"High", "Medium", "Low"}
          /\ r.band = "High" <=> r.score >= 30
          /\ r.band = "Medium" <=> (r.score >= 15 /\ r.score < 30)
          /\ r.band = "Low" <=> r.score < 15
  /\ pc = "done" => out[1].scores = results

C1_Witness ==
  /\ pc = "done"
  /\ \E i \in Scored :
       /\ results[i].band = "Medium"
       /\ Len(results[i].reasons) >= 3
       /\ HasReason(results[i], "PEP flag")

(***************************************************************************)
(* C2 as claimed: a client with pep_flag true and no other signal gets     *)
(* score 20 and band Low.                                                  *)
(***************************************************************************)
C2_PepOnlyIsLow ==
  \A i \in Scored :
    (FlagTrue(clients[i].pep_flag) /\ ~FlagTrue(clients[i].sanctions_flag)
       /\ NoOtherSignal(clients[i]))
    => (results[i].score = 20 /\ results[i].band = "Low")

(***************************************************************************)
(* C2 as amended: a client with pep_flag true and no other signal gets     *)
(* score 20 and band Medium, with the PEP reason alone.                    *)
(***************************************************************************)
C2_PepOnlyIsMedium ==
  \A i \in Scored :
    (FlagTrue(clients[i].pep_flag) /\ ~FlagTrue(clients[i].sanctions_flag)
       /\ NoOtherSignal(clients[i]))
    => /\ results[i].score = 20
       /\ results[i].band = "Medium"
       /\ results[i].reasons = <<PepReason>>

C2_Witness ==
  /\ pc = "done"
  /\ \E i \in Scored :
       /\ FlagTrue(clients[i].pep_flag) /\ ~FlagTrue(clients[i].sanctions_flag)
       /\ NoOtherSignal(clients[i])
       /\ clients[i].kyc_last_reviewed_at = <<2024, 3, 1>>
       /\ results[i].score = 20

(***************************************************************************)
(* C3: a client with pep_flag and sanctions_flag true and no other signal  *)
(* gets score 45 and band High, with exactly the reasons PEP (+20) and     *)
(* Sanctions (+25).                                                        *)
(***************************************************************************)
C3_PepAndSanctions ==
  \A i \in Scored :
    (FlagTrue(clients[i].pep_flag) /\ FlagTrue(clients[i].sanctions_flag)
       /\ NoOtherSignal(clients[i]))
    => /\ results[i].score = 45
       /\ results[i].band = "High"
       /\ results[i].reasons = <<PepReason, SanctionsReason>>

C3_Witness ==
  /\ pc = "done"
  /\ \E i \in Scored :
       /\ clients[i].pep_flag = "TRUE" /\ FlagTrue(clients[i].sanctions_flag)
       /\ NoOtherSignal(clients[i])
       /\ results[i].score = 45

(***************************************************************************)
(* C4: the structuring reason is emitted for a client iff at least 4 of    *)
(* its in-lookback inbound cash AUD transactions with amount in            *)
(* [9600, 9999] have dates spanning at most 7 calendar days.  So 3 such    *)
(* transactions, or 4 spanning 8 days, do not trigger it.                  *)
(***************************************************************************)
C4_StructuringIffFourInSevenDays ==
  \A i \in Scored :
    HasReason(results[i], StructuringText) <=> FourWithinSevenDays(clients[i].client_id)

C4_Witness ==
  /\ pc = "done"
  /\ Len(txs) = 4
  /\ \A j \in 1..4 : txs[j].amount = 9700 /\ txs[j].client_id = "A"
  /\ txs[1].date = <<2025, 2, 5>>
  /\ txs[2].date = <<2025, 2, 1>>
  /\ txs[3].date = <<2025, 2, 5>>
  /\ Cardinality(Deposits("A")) = 4
  /\ HasReason(results[1], StructuringText)
  /\ results[1].score = 12

(***************************************************************************)
(* C5 as claimed: the structuring reason is emitted whenever some          *)
(* qualifying transaction has at least 3 other qualifying transactions of  *)
(* the client within 7 calendar days of it, before or after it.            *)
(***************************************************************************)
C5_ThreeOthersAroundTrigger ==
  \A i \in Scored :
    ThreeOthersAround(clients[i].client_id) => HasReason(results[i], StructuringText)

(***************************************************************************)
(* C5 as amended: the structuring reason is emitted whenever some          *)
(* qualifying transaction has at least 3 other qualifying transactions of  *)
(* the client dated on its date or at most 7 calendar days after it.       *)
(***************************************************************************)
C5_ThreeOthersAfterTrigger ==
  \A i \in Scored :
    ThreeOthersAfter(clients[i].client_id) => HasReason(results[i], StructuringText)

C5_Witness ==
  /\ pc = "done"
  /\ Len(txs) = 4
  /\ txs[1].date = <<2025, 2, 4>>
  /\ txs[2].date = <<2025, 2, 1>>
  /\ txs[3].date = <<2025, 1, 28>>
  /\ txs[4].date = <<2025, 2, 1>>
  /\ ThreeOthersAfter("A")
  /\ HasReason(results[1], StructuringText)

(***************************************************************************)
(* C6: the high-risk corridor reason is emitted for a client iff it has at *)
(* least 2 in-lookback outbound AUD transactions to a high-risk country    *)
(* and at least one of those has amount >= 20000.                          *)
(***************************************************************************)
C6_CorridorIffCountAndAmount ==
  \A i \in Scored :
    LET H == HighRiskOut(clients[i].client_id)
    IN HasReason(results[i], CorridorText)
         <=> (Cardinality(H) >= 2 /\ \E j \in H : txs[j].amount >= 20000)

C6_Witness ==
  /\ pc = "done"
  /\ Len(txs) = 2
  /\ txs[1].amount = 19999
  /\ txs[2].amount = 20000
  /\ Cardinality(HighRiskOut("A")) = 2
  /\ HasReason(results[1], CorridorText)
  /\ results[1].score = 10

(***************************************************************************)
(* C7: the results of scoreAll do not depend on the order of the           *)
(* transactions: exchanging any two transactions of the list gives every   *)
(* client the same score, band and reasons (every permutation is a         *)
(* sequence of such exchanges); the structuring reason appears at most     *)
(* once.                                                                   *)
(***************************************************************************)
Swap(ts, a, b) ==
  [j \in 1..Len(ts) |-> IF j = a THEN ts[b] ELSE IF j = b THEN ts[a] ELSE ts[j]]

C7_OrderIndependent ==
  /\ pc = "done" =>
       \A a, b \in 1..Len(txs) :
         a < b => scoreAll(clients, Swap(txs, a, b), lookback) = results
  /\ \A i \in Scored : CountReason(results[i], StructuringText) <= 1

C7_Witness ==
  /\ pc = "done"
  /\ Len(txs) = 4
  /\ txs[1].date = <<2025, 2, 1>>
  /\ txs[2].date = <<2025, 1, 28>>
  /\ txs[3].date = <<2025, 2, 5>>
  /\ txs[4].date = <<2025, 2, 1>>
  /\ Cardinality(Deposits("A")) = 4
  /\ results[1].reasons = << >>

(***************************************************************************)
(* C8: a transaction counts for the behavioural rules iff its date is on   *)
(* or after lookback.start: the index holds exactly those transactions     *)
(* (one dated lookback.start included, one dated after lookback.end        *)
(* included), and the results are those of the list without the            *)
(* transactions dated before lookback.start.                               *)
(***************************************************************************)
FromStart(ts, lb) == SelectSeq(ts, LAMBDA t : Day(t.date) >= Day(lb.start))

OfClient(ts, id) == SelectSeq(ts, LAMBDA t : t.client_id = id)

C8_LookbackStartInclusive ==
  /\ (pc = "score" /\ results = << >>) =>
       \A id \in {"A", "B"} :
         MapGet(txByClient, id) = OfClient(FromStart(txs, lookback), id)
  /\ pc = "done" => results = scoreAll(clients, FromStart(txs, lookback), lookback)

C8_Witness ==
  /\ pc = "done"
  /\ Len(txs) = 3
  /\ txs[1] = Transfer(<<2024, 12, 31>>, "in", "AUD", 100000, "")
  /\ txs[2] = Transfer(<<2025, 1, 1>>, "out", "AUD", 20000, "RU")
  /\ txs[3] = Transfer(<<2025, 3, 2>>, "out", "AUD", 19999, "IR")
  /\ Len(MapGet(txByClient, "A")) = 2
  /\ results[1].score = 10

(***************************************************************************)
(* C9: the stale-KYC reason is emitted iff kyc_last_reviewed_at is         *)
(* present, is a date, and lies more than 365 calendar days before         *)
(* lookback.end (365 days exactly do not trigger); with an absent or       *)
(* unparsable kyc_last_reviewed_at the client is scored as with a recent   *)
(* review date: no reason, no error, the other rules evaluated.            *)
(***************************************************************************)
C9_StaleKyc ==
  \A i \in Scored :
    LET c == clients[i]
        recent == [c EXCEPT !.kyc_last_reviewed_at = <<2025, 2, 1>>]
    IN /\ HasReason(results[i], KycText) <=> KycOlderThan365(c)
       /\ c.kyc_last_reviewed_at = <<2024, 3, 1>> => ~HasReason(results[i], KycText)
       /\ (c.kyc_last_reviewed_at = << >> \/ ~IsValidDate(c.kyc_last_reviewed_at))
            => results[i] = ScoreClient(recent, MapGet(txByClient, c.client_id), lookback)

C9_Witness ==
  /\ pc = "done"
  /\ clients[1].kyc_last_reviewed_at = <<2024, 13, 1>>
  /\ HasReason(results[1], "Online channel")
  /\ HasReason(results[1], LargeText)
  /\ ~HasReason(results[1], KycText)

(***************************************************************************)
(* C10: the large-domestic-transfer reason is emitted iff the client has   *)
(* at least one in-lookback AUD transaction, of either direction, with     *)
(* amount >= 100000 and counterparty country absent or 'AU'.               *)
(***************************************************************************)
C10_LargeDomestic ==
  \A i \in Scored :
    HasReason(results[i], LargeText) <=> LargeDomestic(clients[i].client_id) # {}

C10_Witness ==
  /\ pc = "done"
  /\ Len(txs) = 2
  /\ txs[1] = Transfer(<<2025, 1, 1>>, "out", "AUD", 100000, "NZ")
  /\ txs[2] = Transfer(<<2025, 1, 1>>, "out", "AUD", 100000, "AU")
  /\ HasReason(results[1], LargeText)
  /\ results[1].score = 8

(***************************************************************************)
(* C11: scoreAll returns exactly one result per input client, in the order *)
(* of the input clients: the k-th result carries the id of the k-th        *)
(* client, also when an id is repeated and when the list is empty.         *)
(***************************************************************************)
C11_OneResultPerClientInOrder ==
  /\ Len(results) <= Len(clients)
  /\ \A i \in Scored : results[i].client_id = clients[i].client_id
  /\ pc = "done" /\ out # << >> =>
       /\ Len(out[1].scores) = Len(clients)
       /\ \A i \in 1..Len(clients) : out[1].scores[i].client_id = clients[i].client_id

C11_Witness ==
  /\ pc = "done"
  /\ out # << >>
  /\ Len(clients) = 2
  /\ clients[1].client_id = clients[2].client_id
  /\ clients[1] # clients[2]
  /\ Len(out[1].scores) = 2
  /\ out[1].scores[1].score # out[1].scores[2].score

(***************************************************************************)
(* C12: scoreAll completes on an empty client list, on an empty            *)
(* transaction list and on a client none of whose transactions is inside   *)
(* the lookback.  Such a client gets no reason of the family behaviour,    *)
(* and with no profile signal it gets score 0, band Low and no reasons.    *)
(***************************************************************************)
NoProfileSignal(c) ==
  /\ ~FlagTrue(c.pep_flag)
  /\ ~FlagTrue(c.sanctions_flag)
  /\ ~KycOlderThan365(c)
  /\ Words(c.delivery_channel) \cap {"online", "Online"} = {}
  /\ Words(c.services) \cap {"remittance", "Remittance", "property", "Property"} = {}
  /\ c.residency_country \notin {"RU", "CN", "HK", "AE", "IN", "IR", "ru", "ir"}

C12_NoTransactionsInLookback ==
  /\ \A i \in Scored :
       InWindow(clients[i].client_id) = {} =>
         /\ \A k \in 1..Len(results[i].reasons) : results[i].reasons[k].family # "behaviour"
         /\ NoProfileSignal(clients[i]) =>
              /\ results[i].score = 0
              /\ results[i].band = "Low"
              /\ results[i].reasons = << >>
  /\ pc = "done" /\ out # << >> => Len(out[1].scores) = Len(clients)

C12_Witness ==
  /\ pc = "done"
  /\ out # << >>
  /\ Len(clients) = 1
  /\ Len(txs) >= 1
  /\ \E j \in 1..Len(txs) : txs[j].client_id = clients[1].client_id /\ txs[j].amount >= 100000
  /\ InWindow(clients[1].client_id) = {}
  /\ NoProfileSignal(clients[1])
  /\ out[1].scores[1].score = 0
  /\ out[1].scores[1].reasons = << >>

(***************************************************************************)
(* Vocabulary of the properties of the cache.  putLog[t] is the last put   *)
(* on token t (archive, manifest, lifetime in minutes, time of the call);  *)
(* expiredLog is the set of tokens some get has found expired.             *)
(***************************************************************************)
EntryOf(m, t) == IF t \in DOMAIN m THEN <<m[t]>> ELSE << >>

PositiveTtl(p) == ~p.ttlMin.nan /\ p.ttlMin.v > 0

Deadline(p) == p.at + p.ttlMin.v * 60000

JustGot == got.token # ""

(***************************************************************************)
(* C13: after put(token, archive, manifest, m) with m positive at time p,  *)
(* a get of the token at any time t with p <= t <= p + m minutes, the      *)
(* boundary included, returns exactly that archive and that manifest,      *)
(* when no other put has used the token since.                             *)
(***************************************************************************)
C13_GetWithinTtlReturnsWhatWasPut ==
  JustGot /\ got.token \in DOMAIN putLog =>
    LET p == putLog[got.token]
    IN  PositiveTtl(p) /\ p.at <= now /\ now <= Deadline(p) =>
          /\ got.value # << >>
          /\ got.value[1].zipBuffer = p.zipBuffer
          /\ got.value[1].manifest = p.manifest

C13_Witness ==
  /\ JustGot
  /\ got.token \in DOMAIN putLog
  /\ PositiveTtl(putLog[got.token])
  /\ putLog[got.token].at > 0
  /\ now = Deadline(putLog[got.token])
  /\ got.value # << >>
  /\ got.value[1].zipBuffer = ZipOf(2)
  /\ got.token \in expiredLog

(***************************************************************************)
(* C14: once a get has found the entry of a token expired, no later get    *)
(* of that token resolves it, after any sequence of operations.            *)
(***************************************************************************)
C14_ExpiredNeverResolvedAgain ==
  JustGot /\ got.value # << >> => got.token \notin expiredLog

(***************************************************************************)
(* C15: a put on a token that already has an entry does not replace the    *)
(* archive, the manifest or the expiry of that entry.                      *)
(***************************************************************************)
C15_PutNeverReplaces ==
  [][\A t \in DOMAIN storeMap : t \in DOMAIN storeMap' => storeMap'[t] = storeMap[t]]_vars

(***************************************************************************)
(* C16: the check and the eviction of a get are one step: no get returns   *)
(* an entry whose expiry is earlier than the time of the call, a step that *)
(* removes an entry is the get that found it expired and removes it once,  *)
(* and a put or an eviction of one token leaves every other token's entry  *)
(* as it was.                                                              *)
(***************************************************************************)
C16_Step ==
  /\ got'.token # "" /\ got'.value # << >> =>
       /\ ~(~got'.value[1].exp.nan /\ now' > got'.value[1].exp.v)
       /\ EntryOf(storeMap', got'.token) = got'.value
  /\ \A t \in Tokens :
       EntryOf(storeMap, t) # << >> /\ EntryOf(storeMap', t) = << >> =>
         /\ got' = [token |-> t, value |-> << >>]
         /\ ~storeMap[t].exp.nan /\ now > storeMap[t].exp.v
         /\ t \in expiredLog'
  /\ Cardinality({t \in Tokens : EntryOf(storeMap, t) # EntryOf(storeMap', t)}) <= 1
  /\ got'.token # "" =>
       \A t \in Tokens \ {got'.token} : EntryOf(storeMap', t) = EntryOf(storeMap, t)

C16_CheckAndEvictAtomic == [][C16_Step]_vars

C16_Witness ==
  /\ got = [token |-> "t1", value |-> << >>]
  /\ "t1" \in expiredLog
  /\ "t1" \in DOMAIN putLog
  /\ PositiveTtl(putLog["t1"])
  /\ "t1" \notin DOMAIN storeMap
  /\ "t2" \in DOMAIN storeMap
  /\ now = storeMap["t2"].exp.v

(***************************************************************************)
(* Vocabulary of the properties of the manifest.                           *)
(***************************************************************************)
Built == upManifest # << >>

HasSigning(m) == "signing" \in DOMAIN m

BothKeysSet == cfg.SIGN_PRIVATE_KEY # "" /\ cfg.SIGN_PUBLIC_KEY # ""

\* The configured private key is a 32-byte seed, which the signing call
\* rejects: the signing error of the configurations considered.
SigningRaises == cfg.SIGN_PRIVATE_KEY = "seedA"

KeyPairs == {<<"skA", "pkA">>, <<"skB", "pkB">>}

Digest(bytes) == <<"sha256", bytes>>

(***************************************************************************)
(* C17: the manifest built has a signing field iff both SIGN_PRIVATE_KEY   *)
(* and SIGN_PUBLIC_KEY are non-empty and signing raised no error; with     *)
(* neither key or only one key it has no signing field.                    *)
(***************************************************************************)
C17_SigningIffBothKeysAndNoError ==
  Built =>
    /\ HasSigning(upManifest[1]) <=> (BothKeysSet /\ ~SigningRaises)
    /\ (cfg.SIGN_PRIVATE_KEY = "" \/ cfg.SIGN_PUBLIC_KEY = "") => ~HasSigning(upManifest[1])

C17_Witness ==
  /\ upPc = "built"
  /\ cfg.SIGN_PRIVATE_KEY = "skA"
  /\ cfg.SIGN_PUBLIC_KEY = "pkB"
  /\ Len(namedFiles) = 2
  /\ HasSigning(upManifest[1])
  /\ upManifest[1].signing.key_id = "ed25519:app"

(***************************************************************************)
(* C18: when signing raises, buildManifest still returns: the manifest has *)
(* the created_utc, hash_algo, ruleset_id and files of the signed case and *)
(* no signing field, and the upload goes on to archive the files with this *)
(* manifest and to register archive and manifest under the token.          *)
(***************************************************************************)
C18_SigningErrorIsSkipped ==
  BothKeysSet /\ SigningRaises =>
    /\ upPc # "files" => Built
    /\ Built =>
         LET m == upManifest[1]
             signedCase == buildManifest(namedFiles, rulesMeta(lookback), Config("skA", "pkA"), now)
         IN  /\ ~HasSigning(m)
             /\ HasSigning(signedCase)
             /\ m.created_utc = signedCase.created_utc
             /\ m.hash_algo = signedCase.hash_algo
             /\ m.ruleset_id = signedCase.ruleset_id
             /\ m.files = signedCase.files
    /\ upPc = "built" => ENABLED Zip
    /\ upPc = "zipped" =>
         /\ upZip # << >>
         /\ upZip[1][Len(upZip[1])] = NamedBlob("manifest.json", upManifest[1])
         /\ ENABLED Register
    /\ upPc \in {"registered", "shown", "verified"} =>
         /\ upToken \in DOMAIN storeMap
         /\ storeMap[upToken].manifest = upManifest[1]
         /\ storeMap[upToken].zipBuffer = upZip[1]

C18_Witness ==
  /\ upPc = "registered"
  /\ cfg = Config("seedA", "pkA")
  /\ Len(namedFiles) = 2
  /\ upToken \in DOMAIN storeMap
  /\ ~HasSigning(storeMap[upToken].manifest)
  /\ Len(storeMap[upToken].manifest.files) = 2
  /\ Len(storeMap[upToken].zipBuffer) = 3

(***************************************************************************)
(* C19: for any named-blob map the files list of the manifest has exactly  *)
(* one entry per blob, in the insertion order of the map, each with the    *)
(* name, the byte length and the SHA-256 digest of exactly that blob's     *)
(* bytes, so that any other bytes give a different digest.                 *)
(***************************************************************************)
C19_FilesInInsertionOrder ==
  Built =>
    LET files == upManifest[1].files
    IN  /\ Len(files) = Len(namedFiles)
        /\ \A i \in 1..Len(namedFiles) :
             /\ files[i].name = namedFiles[i].name
             /\ files[i].bytes = Len(namedFiles[i].buf)
             /\ files[i].sha256 = Digest(namedFiles[i].buf)
             /\ \A b \in Blobs : b # namedFiles[i].buf => Digest(b) # files[i].sha256

(***************************************************************************)
(* C20: verifying the recorded signature over the re-serialized files,     *)
(* created_utc and ruleset_id against the configured public key succeeds   *)
(* iff the manifest has a signing block and none of the three was altered  *)
(* after the manifest was created.                                         *)
(***************************************************************************)
SignedFieldsUnaltered ==
  /\ shown[1].files = upManifest[1].files
  /\ shown[1].created_utc = upManifest[1].created_utc
  /\ shown[1].ruleset_id = upManifest[1].ruleset_id

C20_VerifiesIffSignedAndUnaltered ==
  upPc = "verified" =>
    (verdict = "valid" <=> HasSigning(shown[1]) /\ SignedFieldsUnaltered)

(***************************************************************************)
(* C20, amended: the verification succeeds iff the manifest has a signing  *)
(* block, the configured public key is the public half of the private key  *)
(* that signed, and neither the files, the created timestamp, the ruleset  *)
(* id nor the recorded signature was altered.                              *)
(***************************************************************************)
C20_VerifiesIffSignedUnalteredAndKeyPair ==
  upPc = "verified" =>
    (verdict = "valid" <=>
       /\ HasSigning(shown[1])
       /\ <<cfg.SIGN_PRIVATE_KEY, cfg.SIGN_PUBLIC_KEY>> \in KeyPairs
       /\ SignedFieldsUnaltered
       /\ shown[1].signing = upManifest[1].signing)

C20_Witness ==
  /\ upPc = "verified"
  /\ verdict = "valid"
  /\ cfg = Config("skB", "pkB")
  /\ Len(namedFiles) = 2
  /\ shown[1].hash_algo = "MD5"
  /\ upManifest[1].hash_algo = "SHA-256"

(***************************************************************************)
(* C23: every rule of the catalogue gives zero or one reason with its      *)
(* fixed points, and the reasons of a result follow the evaluation order   *)
(* PEP 20, Sanctions 25, Stale KYC 5, Online 3, Remittance 6, Property 4,  *)
(* High-risk residency 8, Structuring 12, Corridor 10, Large domestic 8;   *)
(* so no reason text repeats and every score is between 0 and 101.         *)
(***************************************************************************)
Catalogue ==
  <<reason("profile", "PEP flag", 20),
    reason("profile", "Sanctions flag", 25),
    reason("profile", KycText, 5),
    reason("profile", "Online channel", 3),
    reason("profile", "Remittance service", 6),
    reason("profile", "Property service", 4),
    reason("profile", "High-risk residency", 8),
    reason("behaviour", StructuringText, 12),
    reason("behaviour", CorridorText, 10),
    reason("behaviour", LargeText, 8)>>

C23_ReasonsInCatalogueOrder ==
  \A i \in Scored :
    LET r == results[i]
    IN /\ \A k \in 1..Len(r.reasons) : \E j \in 1..Len(Catalogue) : r.reasons[k] = Catalogue[j]
       /\ \A k, l \in 1..Len(r.reasons) :
            k < l =>
              \E j, m \in 1..Len(Catalogue) :
                j < m /\ r.reasons[k] = Catalogue[j] /\ r.reasons[l] = Catalogue[m]
       /\ \A k, l \in 1..Len(r.reasons) : k # l => r.reasons[k].text # r.reasons[l].text
       /\ r.score \in 0..101

C23_Witness ==
  /\ pc = "done"
  /\ \E i \in Scored :
       /\ Len(results[i].reasons) >= 8
       /\ results[i].reasons[1] = Catalogue[1]
       /\ results[i].reasons[Len(results[i].reasons)].family = "behaviour"
       /\ results[i].score >= 79

(***************************************************************************)
(* C24: the result of a client depends only on that client's profile, on   *)
(* the transactions carrying its client_id and on the lookback: scoring    *)
(* the client alone with its own transactions gives the same result, and   *)
(* so does changing, adding or removing a transaction of another id        *)
(* (another client's or nobody's) or changing another client's profile.    *)
(***************************************************************************)
IsOf(id, t) == t.client_id = id

OwnTxs(ts, id) == [k \in 1..Cardinality({j \in 1..Len(ts) : IsOf(id, ts[j])}) |->
                     ts[CHOOSE j \in 1..Len(ts) :
                          /\ IsOf(id, ts[j])
                          /\ Cardinality({h \in 1..j : IsOf(id, ts[h])}) = k]]

\* Transactions of other ids that would fire a behavioural rule.
ForeignTxs(id) ==
  {Tx(other, <<2025, 1, 1>>, "out", "wire", "AUD", 100000, "") : other \in {"A", "B", "Z"} \ {id}}

OtherProfile(c) ==
  Client(c.client_id, "true", "true", <<2020, 1, 1>>, <<"Online">>, <<"Remittance">>, "IR")

Without(ts, j) == [k \in 1..(Len(ts) - 1) |-> IF k < j THEN ts[k] ELSE ts[k + 1]]

C24_ClientIsolation ==
  pc = "done" =>
    \A i \in 1..Len(clients) :
      LET id == clients[i].client_id
      IN /\ scoreAll(<<clients[i]>>, OwnTxs(txs, id), lookback) = <<results[i]>>
         /\ \A f \in ForeignTxs(id) :
              /\ scoreAll(clients, Append(txs, f), lookback)[i] = results[i]
              /\ scoreAll(clients, <<f>> \o txs, lookback)[i] = results[i]
              /\ \A j \in 1..Len(txs) :
                   ~IsOf(id, txs[j]) =>
                     /\ scoreAll(clients, [txs EXCEPT ![j] = f], lookback)[i] = results[i]
                     /\ scoreAll(clients, Without(txs, j), lookback)[i] = results[i]
         /\ \A k \in 1..Len(clients) :
              k # i =>
                scoreAll([clients EXCEPT ![k] = OtherProfile(clients[k])], txs, lookback)[i]
                  = results[i]

C24_Witness ==
  /\ pc = "done"
  /\ Len(clients) = 2
  /\ clients[1].client_id = "A"
  /\ clients[2].client_id = "B"
  /\ \E j \in 1..Len(txs) : txs[j].client_id = "A" /\ txs[j].amount >= 20000
  /\ HasReason(results[2], CorridorText)
  /\ HasReason(results[2], LargeText)
  /\ results[1].reasons = << >>

(***************************************************************************)
(* Further vocabulary of the cache.                                        *)
(***************************************************************************)
NeverPut(t) == t \notin DOMAIN putLog

\* The lifetime of the last put on t is a number and has passed.
LastPutExpired(t) ==
  /\ t \in DOMAIN putLog
  /\ ~putLog[t].ttlMin.nan
  /\ now > Deadline(putLog[t])

IsNotFound(r) == r.status = 404 /\ r.text = "Link expired or not found." /\ Len(r.payload) = 0

Answered == response.status # 0

Serves == response.status = 200 /\ response.text \in {"verify", "application/zip"}

(***************************************************************************)
(* C22: a get of a token that was never put and a get of an expired token  *)
(* both return the not-found value, and GET /verify/:token and             *)
(* GET /download/:token answer both with the same 404 "Link expired or not *)
(* found." and serve neither manifest nor archive.                         *)
(***************************************************************************)
C22_UnknownAndExpiredAreNotFound ==
  JustGot =>
    /\ NeverPut(got.token) \/ LastPutExpired(got.token) =>
         /\ got.value = << >>
         /\ Answered => IsNotFound(response) /\ ~Serves
    /\ Answered /\ got.value = << >> => IsNotFound(response)
    /\ Serves => got.value # << >> /\ ~LastPutExpired(got.token)

C22_Witness ==
  /\ got = [token |-> "t1", value |-> << >>]
  /\ LastPutExpired("t1")
  /\ PositiveTtl(putLog["t1"])
  /\ "t1" \notin DOMAIN storeMap
  /\ IsNotFound(response)
  /\ NeverPut("t2")

(***************************************************************************)
(* C25: a get of a token whose entry has not expired leaves the store as   *)
(* it was: the entry stays, with the same expiry, archive and manifest, so *)
(* verify and download resolve the token again and again until its expiry. *)
(***************************************************************************)
C25_Step ==
  got'.token # "" /\ got'.value # << >> =>
    /\ storeMap' = storeMap
    /\ got'.value = <<storeMap[got'.token]>>
    /\ putLog' = putLog

C25_GetLeavesStoreUnchanged == [][C25_Step]_vars

C25_Witness ==
  /\ JustGot
  /\ got.value # << >>
  /\ response.status = 200
  /\ response.text = "application/zip"
  /\ response.payload = <<putLog[got.token].zipBuffer>>
  /\ now > 0
  /\ now = Deadline(putLog[got.token])
  /\ storeMap[got.token] = got.value[1]

(***************************************************************************)
(* C26: the passing of time alone removes no entry: the number of entries  *)
(* decreases only in a get of a token whose entry has expired, and the     *)
(* tokens count of /api/status counts the entries whose expiry has passed  *)
(* too.                                                                    *)
(***************************************************************************)
C26_Step ==
  /\ now' # now => storeMap' = storeMap
  /\ Cardinality(DOMAIN storeMap') < Cardinality(DOMAIN storeMap) =>
       /\ got'.token \in DOMAIN storeMap
       /\ got'.value = << >>
       /\ ~storeMap[got'.token].exp.nan /\ now > storeMap[got'.token].exp.v
       /\ DOMAIN storeMap' = DOMAIN storeMap \ {got'.token}
  /\ response'.text = "status" =>
       /\ response'.payload = <<Cardinality(DOMAIN storeMap)>>
       /\ storeMap' = storeMap

C26_OnlyExpiredGetRemoves == [][C26_Step]_vars

C26_Witness ==
  /\ response.text = "status"
  /\ response.payload = <<2>>
  /\ \A t \in Tokens :
       /\ t \in DOMAIN storeMap
       /\ PositiveTtl(putLog[t])
       /\ now > Deadline(putLog[t])
       /\ t \notin expiredLog

(***************************************************************************)
(* C28: every entry has a bounded lifetime whatever the configured TTL: a  *)
(* get at any time after p + m minutes returns not found for an entry put  *)
(* at p with TTL m, also for m = 0 and negative m, and when the TTL is NaN *)
(* there is still a time after which the get returns not found (here: at   *)
(* the latest the last instant considered).                                *)
(***************************************************************************)
Horizon == MaxTicks * TickMs

C28_BoundedLifetime ==
  JustGot /\ got.token \in DOMAIN putLog =>
    LET p == putLog[got.token]
    IN  (IF p.ttlMin.nan THEN now = Horizon /\ now > p.at ELSE now > Deadline(p)) =>
          got.value = << >>

(***************************************************************************)
(* Vocabulary of the properties of POST /upload.                           *)
(***************************************************************************)
EvidenceNames == <<"clients.json", "transactions.json", "cases.json", "program.html">>

NamesOf(entries) == [i \in 1..Len(entries) |-> entries[i].name]

Succeeded(u) == u.res.status = 200

UrlsOf(u) == <<u.res.verify_url, u.res.download_url>>

(***************************************************************************)
(* C21: in a successful POST /upload the manifest is built over exactly    *)
(* the four evidence blobs and does not list itself; the archive holds     *)
(* those four blobs and manifest.json made from that manifest; then a      *)
(* token is drawn, the archive and that manifest are put under it with the *)
(* configured TTL, and only then the two URLs, made from that token and    *)
(* the configured origin, are returned.                                    *)
(***************************************************************************)
C21_Step ==
  \A r \in Requests :
    LET u == uploads[r]
        v == uploads'[r]
    IN /\ v.manifest # << >> =>
            /\ NamesOf(v.manifest[1].files) = EvidenceNames
            /\ NamesOf(v.files) = EvidenceNames
            /\ \A i \in 1..4 : v.manifest[1].files[i].sha256 = Digest(v.files[i].buf)
       /\ v.pc = "zipping" =>
            /\ v.manifest # << >>
            /\ v.zipBuffer = << >> /\ v.token = "" /\ v.res.status = 0
       /\ ~Succeeded(u) /\ Succeeded(v) =>
            /\ u.pc = "zipping"
            /\ v.manifest = u.manifest /\ v.files = u.files
            /\ NamesOf(v.zipBuffer[1]) = Append(EvidenceNames, "manifest.json")
            /\ SubSeq(v.zipBuffer[1], 1, 4) = v.files
            /\ v.zipBuffer[1][5].buf = v.manifest[1]
            /\ v.token \in Tokens
            /\ storeMap'[v.token].zipBuffer = v.zipBuffer[1]
            /\ storeMap'[v.token].manifest = v.manifest[1]
            /\ storeMap'[v.token].exp = Num(now + cfg.VERIFY_TTL_MIN.v * 60000)
            /\ v.res.verify_url = <<cfg.APP_ORIGIN, "/verify/", v.token>>
            /\ v.res.download_url = <<cfg.APP_ORIGIN, "/download/", v.token>>
       /\ Succeeded(v) => v.token \in DOMAIN putLog'

C21_UploadStepsInOrder == [][C21_Step]_vars

C21_Witness ==
  /\ Succeeded(uploads[1])
  /\ uploads[1].input = 2
  /\ HasSigning(uploads[1].manifest[1])
  /\ Len(uploads[1].zipBuffer[1]) = 5
  /\ uploads[1].token \in DOMAIN storeMap
  /\ storeMap[uploads[1].token].manifest = uploads[1].manifest[1]
  /\ now > 0
  /\ storeMap[uploads[1].token].exp = Num(now + 3600000)
  /\ uploads[2].pc = "zipping"

(***************************************************************************)
(* C27: when POST /upload fails before it registers (a file is missing, or *)
(* parsing, normalization, scoring, manifest building or archiving         *)
(* raises), the cache is left as it was, no token is drawn or returned,    *)
(* and the response is 400 for a missing file and 500 otherwise; every     *)
(* entry of the cache belongs to a request whose archive and manifest were *)
(* fully built.                                                            *)
(***************************************************************************)
C27_Step ==
  /\ \A r \in Requests :
       LET u == uploads[r]
           v == uploads'[r]
       IN  u.pc # "done" /\ v.pc = "done" /\ v.zipBuffer = << >> =>
             /\ v.token = ""
             /\ storeMap' = storeMap
             /\ putLog' = putLog
             /\ v.res.status \in {400, 500}
             /\ DOMAIN v.res = {"status", "error"}
             /\ v.res.status = 400 => u.pc = "idle" /\ v.res = MissingFile
             /\ u.pc # "idle" => v.res.status = 500 /\ v.res.error = "Processing failed."
  /\ \A t \in DOMAIN storeMap' :
       \E r \in Requests :
         /\ uploads'[r].token = t
         /\ uploads'[r].manifest # << >>
         /\ uploads'[r].zipBuffer # << >>
         /\ storeMap'[t].zipBuffer = uploads'[r].zipBuffer[1]
         /\ storeMap'[t].manifest = uploads'[r].manifest[1]

C27_FailedUploadLeavesCacheUnchanged == [][C27_Step]_vars

C27_Witness ==
  /\ uploads[1].pc = "done"
  /\ uploads[1].res = ProcessingFailed
  /\ uploads[1].manifest # << >>
  /\ uploads[1].token = ""
  /\ Succeeded(uploads[2])
  /\ DOMAIN storeMap = {uploads[2].token}
  /\ storeMap[uploads[2].token].manifest = uploads[2].manifest[1]

(***************************************************************************)
(* C29: when several uploads are in flight and interleave at their awaits, *)
(* the token returned to a request resolves to the archive and manifest    *)
(* built from that request's own files, never another request's, provided  *)
(* the requests were given distinct tokens.                                *)
(***************************************************************************)
DistinctTokens ==
  \A r, q \in Requests : r # q /\ uploads[r].token # "" => uploads[r].token # uploads[q].token

OwnEvidence(u, entry) ==
  /\ SubSeq(entry.zipBuffer, 1, 4) = EvidenceFiles(u.input)
  /\ entry.zipBuffer[5] = NamedBlob("manifest.json", entry.manifest)
  /\ \A i \in 1..4 :
       /\ entry.manifest.files[i].name = EvidenceFiles(u.input)[i].name
       /\ entry.manifest.files[i].sha256 = Digest(EvidenceFiles(u.input)[i].buf)
  /\ entry.manifest = u.manifest[1]

C29_TokenResolvesToOwnEvidence ==
  DistinctTokens =>
    \A r \in Requests :
      LET u == uploads[r]
      IN  Succeeded(u) =>
            /\ u.token \in DOMAIN storeMap => OwnEvidence(u, storeMap[u.token])
            /\ JustGot /\ got.token = u.token /\ got.value # << >> =>
                 /\ OwnEvidence(u, got.value[1])
                 /\ response.text = "verify" => response.payload[1] = u.manifest[1]
                 /\ response.text = "application/zip" => response.payload[1] = u.zipBuffer[1]

C29_Witness ==
  /\ Succeeded(uploads[1])
  /\ Succeeded(uploads[2])
  /\ uploads[1].input = 1
  /\ uploads[2].input = 2
  /\ uploads[1].token # uploads[2].token
  /\ uploads[1].manifest[1].created_utc = uploads[2].manifest[1].created_utc
  /\ now > 0
  /\ putLog[uploads[1].token].at > putLog[uploads[2].token].at
  /\ got.token = uploads[1].token
  /\ response.text = "application/zip"
  /\ response.payload[1][1].buf = <<1>>
====
